---- MODULE Spec2Model ----
(***************************************************************************)
(* OrderBook and TWAP of akuz-cpp (twap-from-file).                        *)
(*                                                                         *)
(* OrderBook keeps an order->price map and a price->count map; max_price() *)
(* reads the last key of the price->count map.  TWAP folds the previous    *)
(* price into a running time-weighted average on every next_price call.    *)
(*                                                                         *)
(* Prices are C++ doubles.  A double is modelled as what IEEE-754 binary64 *)
(* makes of it: NaN, zero, or a positive normal number m * 2^e whose       *)
(* significand m is an integer of exactly MantBits bits, held as a         *)
(* sequence of limbs (digits in base LimbBase, most significant first).    *)
(* Every arithmetic operation rounds to nearest, ties to even.  Exponent   *)
(* overflow and underflow do not occur for the magnitudes used here and    *)
(* are not modelled; all prices are positive.                              *)
(***************************************************************************)
EXTENDS Integers, Sequences, FiniteSets, TLC

\* ------------------------------------------------------------------------
\* Bounds of the model
\* ------------------------------------------------------------------------

\* order ids are 1..MaxOrderId
MaxOrderId == 4

\* times are 0..MaxTime
MaxTime == 6

\* number of next_price calls in one run
MaxCalls == 4

\* ------------------------------------------------------------------------
\* Program constants
\* ------------------------------------------------------------------------

\* number of significand bits of a double
MantBits == 53

\* ------------------------------------------------------------------------
\* Natural numbers of any size: sequences of limbs, most significant first,
\* without leading zero limbs; zero is <<>>
\* ------------------------------------------------------------------------

RECURSIVE BitLen(_)
\* number of binary digits of n >= 0
BitLen(n) == IF n = 0 THEN 0 ELSE 1 + BitLen(n \div 2)

LimbBase == 2 ^ 15

LimbBits == BitLen(LimbBase) - 1

RECURSIVE StripLeading(_)
StripLeading(a) ==
    IF a = <<>> THEN <<>>
    ELSE IF a[1] # 0 THEN a
    ELSE StripLeading(Tail(a))

RECURSIVE MulAcc(_, _, _, _)
MulAcc(a, k, i, carry) ==
    IF i = 0
    THEN (IF carry = 0 THEN <<>> ELSE <<carry>>)
    ELSE LET v == a[i] * k + carry
         IN  Append(MulAcc(a, k, i - 1, v \div LimbBase), v % LimbBase)

\* a * k for 0 <= k <= LimbBase
BigMulSmall(a, k) == StripLeading(MulAcc(a, k, Len(a), 0))

RECURSIVE DivAcc(_, _, _, _, _)
DivAcc(a, n, i, r, q) ==
    IF i > Len(a)
    THEN <<StripLeading(q), r>>
    ELSE LET v == r * LimbBase + a[i]
         IN  DivAcc(a, n, i + 1, v % n, Append(q, v \div n))

\* <<quotient, remainder>> of a / n for 1 <= n <= LimbBase
BigDivSmall(a, n) == DivAcc(a, n, 1, 0, <<>>)

RECURSIVE AddAcc(_, _, _, _)
AddAcc(a, b, i, carry) ==
    IF i = 0
    THEN (IF carry = 0 THEN <<>> ELSE <<carry>>)
    ELSE LET v == a[i] + b[i] + carry
         IN  Append(AddAcc(a, b, i - 1, v \div LimbBase), v % LimbBase)

\* a + b
BigAdd(a, b) ==
    LET n == IF Len(a) >= Len(b) THEN Len(a) ELSE Len(b)
        pa == [i \in 1..(n - Len(a)) |-> 0] \o a
        pb == [i \in 1..(n - Len(b)) |-> 0] \o b
    IN  AddAcc(pa, pb, n, 0)

\* a * k for 0 <= k < LimbBase * LimbBase
BigMulInt(a, k) ==
    IF k < LimbBase
    THEN BigMulSmall(a, k)
    ELSE LET hi == BigMulSmall(a, k \div LimbBase)
         IN  IF hi = <<>> THEN <<>>
             ELSE BigAdd(Append(hi, 0), BigMulSmall(a, k % LimbBase))

\* the digits of a in base 8, five to a limb, most significant first
OctalDigits(a) ==
    [i \in 1..(5 * Len(a)) |-> (a[((i - 1) \div 5) + 1] \div (8 ^ (4 - ((i - 1) % 5)))) % 8]

\* the number with the base 8 digits d, Len(d) a multiple of five
FromOctalDigits(d) ==
    StripLeading([j \in 1..(Len(d) \div 5) |->
        d[5 * j - 4] * 4096 + d[5 * j - 3] * 512 + d[5 * j - 2] * 64
            + d[5 * j - 1] * 8 + d[5 * j]])

RECURSIVE DivOctal(_, _, _, _, _)
DivOctal(d, n, i, r, q) ==
    IF i > Len(d)
    THEN <<FromOctalDigits(q), r>>
    ELSE LET v == r * 8 + d[i]
         IN  DivOctal(d, n, i + 1, v % n, Append(q, v \div n))

\* <<quotient, remainder>> of a / n for 1 <= n < 2^28
BigDivInt(a, n) ==
    IF n <= LimbBase
    THEN BigDivSmall(a, n)
    ELSE DivOctal(OctalDigits(a), n, 1, 0, <<>>)

\* number of binary digits of a
BigBitLen(a) == IF a = <<>> THEN 0 ELSE LimbBits * (Len(a) - 1) + BitLen(a[1])

\* a * 2^k
BigShl(a, k) ==
    IF a = <<>> THEN <<>>
    ELSE BigMulSmall(a \o [i \in 1..(k \div LimbBits) |-> 0], 2 ^ (k % LimbBits))

\* <<a \div 2^k, whether a nonzero remainder was dropped>>
BigShr(a, k) ==
    LET w    == k \div LimbBits
        keep == IF w >= Len(a) THEN <<>> ELSE SubSeq(a, 1, Len(a) - w)
        lost == \E i \in 1..Len(a) : i > Len(a) - w /\ a[i] # 0
        qr   == BigDivSmall(keep, 2 ^ (k % LimbBits))
    IN  <<qr[1], lost \/ qr[2] # 0>>

\* a is odd
BigOdd(a) == a # <<>> /\ a[Len(a)] % 2 = 1

\* a < b
BigLess(a, b) ==
    \/ Len(a) < Len(b)
    \/ /\ Len(a) = Len(b)
       /\ \E i \in 1..Len(a) :
            /\ a[i] < b[i]
            /\ \A j \in 1..(i - 1) : a[j] = b[j]

\* ------------------------------------------------------------------------
\* double
\* ------------------------------------------------------------------------

\* numeric_limits<double>::quiet_NaN()
NaN == [cls |-> "nan", m |-> <<>>, e |-> 0]

DblZero == [cls |-> "zero", m |-> <<>>, e |-> 0]

\* round-to-nearest-even of (a + fraction) * 2^e, where sticky says whether
\* the fraction (0 <= fraction < 1) is nonzero
RoundBig(a, e, sticky) ==
    LET L == BigBitLen(a) IN
    IF L = 0 THEN DblZero
    ELSE IF L <= MantBits
    THEN [cls |-> "pos", m |-> BigShl(a, MantBits - L), e |-> e - (MantBits - L)]
    ELSE LET sh  == BigShr(a, L - MantBits - 1)
             top == BigDivSmall(sh[1], 2)[1]
             rnd == BigOdd(sh[1])
             st  == sticky \/ sh[2]
             up  == rnd /\ (st \/ BigOdd(top))
             m1  == IF up THEN BigAdd(top, <<1>>) ELSE top
         IN  IF BigBitLen(m1) > MantBits
             THEN [cls |-> "pos", m |-> BigDivSmall(m1, 2)[1], e |-> e + (L - MantBits) + 1]
             ELSE [cls |-> "pos", m |-> m1, e |-> e + (L - MantBits)]

\* conversion of an int 0 <= n < LimbBase to double
FromInt(n) == IF n = 0 THEN DblZero ELSE RoundBig(<<n>>, 0, FALSE)

\* x / n, n the double of an int 1 <= n < 2^28
DblDivInt(x, n) ==
    IF x.cls # "pos" THEN x
    ELSE LET s  == BitLen(n) + 2
             qr == BigDivInt(BigShl(x.m, s), n)
         IN  RoundBig(qr[1], x.e - s, qr[2] # 0)

\* x * n, n the double of an int 0 <= n < 2^30
DblMulInt(x, n) ==
    IF x.cls # "pos" THEN x
    ELSE IF n = 0 THEN DblZero
    ELSE RoundBig(BigMulInt(x.m, n), x.e, FALSE)

\* x + y
DblAdd(x, y) ==
    IF x.cls = "nan" \/ y.cls = "nan" THEN NaN
    ELSE IF x.cls = "zero" THEN y
    ELSE IF y.cls = "zero" THEN x
    ELSE LET emin == IF x.e <= y.e THEN x.e ELSE y.e
             a == BigShl(x.m, x.e - emin)
             b == BigShl(y.m, y.e - emin)
         IN  RoundBig(BigAdd(a, b), emin, FALSE)

\* x < y for doubles that are not NaN: the ordering of map<double, int>
DblLess(x, y) ==
    IF y.cls = "zero" THEN FALSE
    ELSE IF x.cls = "zero" THEN TRUE
    ELSE x.e < y.e \/ (x.e = y.e /\ BigLess(x.m, y.m))

\* ------------------------------------------------------------------------
\* Exact rational numbers num/den in lowest terms, den > 0: the arithmetic
\* the TWAP fold is meant to approximate
\* ------------------------------------------------------------------------

RECURSIVE Gcd(_, _)
Gcd(a, b) == IF b = 0 THEN a ELSE Gcd(b, a % b)

Rat(n, d) ==
    LET g == Gcd(IF n < 0 THEN -n ELSE n, d)
    IN  [cls |-> "rat", num |-> n \div g, den |-> d \div g]

RatDivInt(x, n) == Rat(x.num, x.den * n)

RatMulInt(x, n) == Rat(x.num * n, x.den)

RatAdd(x, y) == Rat(x.num * y.den + y.num * x.den, x.den * y.den)

\* ------------------------------------------------------------------------
\* The arithmetic of next_price: IEEE double on doubles, exact on rationals
\* ------------------------------------------------------------------------

\* isnan(x)
isnan(x) == x.cls = "nan"

\* x / n
Div(x, n) == IF x.cls = "rat" THEN RatDivInt(x, n) ELSE DblDivInt(x, n)

\* x * n
Mul(x, n) == IF x.cls = "rat" THEN RatMulInt(x, n) ELSE DblMulInt(x, n)

\* x + y
Add(x, y) == IF x.cls = "rat" /\ y.cls = "rat" THEN RatAdd(x, y) ELSE DblAdd(x, y)

\* ------------------------------------------------------------------------
\* Inputs
\* ------------------------------------------------------------------------

OrderIds == 1..MaxOrderId

\* prices of orders, in whole units
PriceValues == {7, 10, 13}

Prices == {FromInt(v) : v \in PriceValues}

Times == 0..MaxTime

\* prices fed to TWAP: NaN and whole prices
Quotes == {NaN} \cup {FromInt(v) : v \in {10, 13}}

\* the exact value of a double that is NaN or a whole number below LimbBase
ExactOf(x) ==
    IF isnan(x) THEN NaN
    ELSE IF x.cls = "zero" THEN Rat(0, 1)
    ELSE Rat(BigShr(x.m, 0 - x.e)[1][1], 1)

\* ------------------------------------------------------------------------
\* class OrderBook
\* ------------------------------------------------------------------------

\* OrderBook::OrderBook()
NewOrderBook == [order_price_map_ |-> <<>>, price_count_map_ |-> <<>>]

\* f without the key k: map::erase
MapErase(f, k) == [x \in DOMAIN f \ {k} |-> f[x]]

\* insert_order that counts the price of an order whose id is already there
insert_order_counting_duplicates(ob, order_id, price) ==
    [order_price_map_ |->
         IF order_id \in DOMAIN ob.order_price_map_
         THEN ob.order_price_map_
         ELSE (order_id :> price) @@ ob.order_price_map_,
     price_count_map_ |->
         IF price \in DOMAIN ob.price_count_map_
         THEN [ob.price_count_map_ EXCEPT ![price] = @ + 1]
         ELSE (price :> 1) @@ ob.price_count_map_]

\* OrderBook::insert_order
insert_order(ob, order_id, price) ==
    IF order_id \in DOMAIN ob.order_price_map_
    THEN ob
    ELSE [order_price_map_ |-> (order_id :> price) @@ ob.order_price_map_,
          price_count_map_ |->
              IF price \in DOMAIN ob.price_count_map_
              THEN [ob.price_count_map_ EXCEPT ![price] = @ + 1]
              ELSE (price :> 1) @@ ob.price_count_map_]

\* erase_order that removes a price only when its count falls below zero
erase_order_keeping_zero(ob, order_id) ==
    IF order_id \notin DOMAIN ob.order_price_map_
    THEN ob
    ELSE LET price == ob.order_price_map_[order_id]
             count == ob.price_count_map_[price] - 1
         IN  [order_price_map_ |-> MapErase(ob.order_price_map_, order_id),
              price_count_map_ |->
                  IF count < 0
                  THEN MapErase(ob.price_count_map_, price)
                  ELSE [ob.price_count_map_ EXCEPT ![price] = count]]

\* erase_order that removes the price of the erased order whatever its count
erase_order_dropping_price(ob, order_id) ==
    IF order_id \notin DOMAIN ob.order_price_map_
    THEN ob
    ELSE LET price == ob.order_price_map_[order_id]
         IN  [order_price_map_ |-> MapErase(ob.order_price_map_, order_id),
              price_count_map_ |-> MapErase(ob.price_count_map_, price)]

\* erase_order that looks the id up with lower_bound instead of find
erase_order_lower_bound(ob, order_id) ==
    LET above == {k \in DOMAIN ob.order_price_map_ : k >= order_id} IN
    IF above = {}
    THEN ob
    ELSE LET found == CHOOSE k \in above : \A j \in above : k <= j
             price == ob.order_price_map_[found]
             count == ob.price_count_map_[price] - 1
         IN  [order_price_map_ |-> MapErase(ob.order_price_map_, found),
              price_count_map_ |->
                  IF count <= 0
                  THEN MapErase(ob.price_count_map_, price)
                  ELSE [ob.price_count_map_ EXCEPT ![price] = count]]

\* erase_order that leaves the id in order_price_map_
erase_order_keeping_id(ob, order_id) ==
    IF order_id \notin DOMAIN ob.order_price_map_
    THEN ob
    ELSE LET price == ob.order_price_map_[order_id] IN
         IF price \notin DOMAIN ob.price_count_map_
         THEN ob
         ELSE LET count == ob.price_count_map_[price] - 1
              IN  [order_price_map_ |-> ob.order_price_map_,
                   price_count_map_ |->
                       IF count <= 0
                       THEN MapErase(ob.price_count_map_, price)
                       ELSE [ob.price_count_map_ EXCEPT ![price] = count]]

\* OrderBook::erase_order
erase_order(ob, order_id) ==
    IF order_id \notin DOMAIN ob.order_price_map_
    THEN ob
    ELSE LET price == ob.order_price_map_[order_id]
             count == ob.price_count_map_[price] - 1
         IN  [order_price_map_ |-> MapErase(ob.order_price_map_, order_id),
              price_count_map_ |->
                  IF count <= 0
                  THEN MapErase(ob.price_count_map_, price)
                  ELSE [ob.price_count_map_ EXCEPT ![price] = count]]

\* max_price that reads begin() instead of rbegin()
max_price_begin(ob) ==
    IF DOMAIN ob.price_count_map_ = {}
    THEN NaN
    ELSE CHOOSE p \in DOMAIN ob.price_count_map_ :
             \A q \in DOMAIN ob.price_count_map_ : ~DblLess(q, p)

\* OrderBook::max_price
max_price(ob) ==
    IF DOMAIN ob.price_count_map_ = {}
    THEN NaN
    ELSE CHOOSE p \in DOMAIN ob.price_count_map_ :
             \A q \in DOMAIN ob.price_count_map_ : ~DblLess(p, q)

\* ------------------------------------------------------------------------
\* class TWAP
\* ------------------------------------------------------------------------

\* TWAP::TWAP()
NewTWAP == [last_price_ |-> NaN, last_time_ |-> 0, avg_price_ |-> NaN, total_time_ |-> 0]

\* next_price with the two weights of the average exchanged
next_price_swapped_weights(tw, time, price) ==
    IF ~isnan(tw.last_price_)
    THEN LET add_time == time - tw.last_time_ IN
         IF tw.total_time_ > 0
         THEN LET new_total_time == tw.total_time_ + add_time
              IN  [last_price_ |-> price,
                   last_time_  |-> time,
                   avg_price_  |-> Add(Mul(Div(tw.avg_price_, new_total_time), add_time),
                                       Mul(Div(tw.last_price_, new_total_time), tw.total_time_)),
                   total_time_ |-> new_total_time]
         ELSE [last_price_ |-> price,
               last_time_  |-> time,
               avg_price_  |-> tw.last_price_,
               total_time_ |-> add_time]
    ELSE [tw EXCEPT !.last_price_ = price, !.last_time_ = time]

\* next_price that returns at once when the new price is NaN
next_price_skipping_nan(tw, time, price) ==
    IF isnan(price)
    THEN tw
    ELSE IF ~isnan(tw.last_price_)
    THEN LET add_time == time - tw.last_time_ IN
         IF tw.total_time_ > 0
         THEN LET new_total_time == tw.total_time_ + add_time
              IN  [last_price_ |-> price,
                   last_time_  |-> time,
                   avg_price_  |-> Add(Mul(Div(tw.avg_price_, new_total_time), tw.total_time_),
                                       Mul(Div(tw.last_price_, new_total_time), add_time)),
                   total_time_ |-> new_total_time]
         ELSE [last_price_ |-> price,
               last_time_  |-> time,
               avg_price_  |-> tw.last_price_,
               total_time_ |-> add_time]
    ELSE [tw EXCEPT !.last_price_ = price, !.last_time_ = time]

\* next_price without the isnan test of the previous price
next_price_counting_gaps(tw, time, price) ==
    LET add_time == time - tw.last_time_ IN
    IF tw.total_time_ > 0
    THEN LET new_total_time == tw.total_time_ + add_time
         IN  [last_price_ |-> price,
              last_time_  |-> time,
              avg_price_  |-> Add(Mul(Div(tw.avg_price_, new_total_time), tw.total_time_),
                                  Mul(Div(tw.last_price_, new_total_time), add_time)),
              total_time_ |-> new_total_time]
    ELSE [last_price_ |-> price,
          last_time_  |-> time,
          avg_price_  |-> tw.last_price_,
          total_time_ |-> add_time]

\* next_price that tests and averages the new price instead of the previous one
next_price_using_new_price(tw, time, price) ==
    IF ~isnan(price)
    THEN LET add_time == time - tw.last_time_ IN
         IF tw.total_time_ > 0
         THEN LET new_total_time == tw.total_time_ + add_time
              IN  [last_price_ |-> price,
                   last_time_  |-> time,
                   avg_price_  |-> Add(Mul(Div(tw.avg_price_, new_total_time), tw.total_time_),
                                       Mul(Div(price, new_total_time), add_time)),
                   total_time_ |-> new_total_time]
         ELSE [last_price_ |-> price,
               last_time_  |-> time,
               avg_price_  |-> price,
               total_time_ |-> add_time]
    ELSE [tw EXCEPT !.last_price_ = price, !.last_time_ = time]

\* next_price accumulating the time stamp itself instead of the time elapsed
\* since the previous sample
next_price_adding_time(tw, time, price) ==
    IF ~isnan(tw.last_price_)
    THEN IF tw.total_time_ > 0
         THEN LET new_total_time == tw.total_time_ + time
              IN  [last_price_ |-> price,
                   last_time_  |-> time,
                   avg_price_  |-> Add(Mul(Div(tw.avg_price_, new_total_time), tw.total_time_),
                                       Mul(Div(tw.last_price_, new_total_time), time)),
                   total_time_ |-> new_total_time]
         ELSE [last_price_ |-> price,
               last_time_  |-> time,
               avg_price_  |-> tw.last_price_,
               total_time_ |-> time]
    ELSE [tw EXCEPT !.last_price_ = price, !.last_time_ = time]

\* TWAP::next_price
next_price(tw, time, price) ==
    IF ~isnan(tw.last_price_)
    THEN LET add_time == time - tw.last_time_ IN
         IF tw.total_time_ > 0
         THEN LET new_total_time == tw.total_time_ + add_time
              IN  [last_price_ |-> price,
                   last_time_  |-> time,
                   avg_price_  |-> Add(Mul(Div(tw.avg_price_, new_total_time), tw.total_time_),
                                       Mul(Div(tw.last_price_, new_total_time), add_time)),
                   total_time_ |-> new_total_time]
         ELSE [last_price_ |-> price,
               last_time_  |-> time,
               avg_price_  |-> tw.last_price_,
               total_time_ |-> add_time]
    ELSE [tw EXCEPT !.last_price_ = price, !.last_time_ = time]

\* TWAP::avg_price
avg_price(tw) == tw.avg_price_

\* ------------------------------------------------------------------------
\* State
\* ------------------------------------------------------------------------

VARIABLES
    order_book,   \* the OrderBook
    twap,         \* the TWAP, in double arithmetic
    exact,        \* the same TWAP code run on the same samples in exact arithmetic
    samples,      \* every (time, price) passed to next_price so far
    call,         \* the last call made and its arguments
    prev_book,    \* order_book before the last call
    prev_twap,    \* twap before the last call
    life          \* the order erased last, and whether its id has been inserted again

vars == <<order_book, twap, exact, samples, call, prev_book, prev_twap, life>>

NoCall == [op |-> "none", order_id |-> 0, time |-> 0, price |-> NaN]

\* no order has been erased yet
NoLife == [order_id |-> 0, price |-> NaN, phase |-> "none"]

Init ==
    /\ order_book = NewOrderBook
    /\ twap = NewTWAP
    /\ exact = NewTWAP
    /\ samples = <<>>
    /\ call = NoCall
    /\ prev_book = NewOrderBook
    /\ prev_twap = NewTWAP
    /\ life = NoLife

\* ------------------------------------------------------------------------
\* Calls
\* ------------------------------------------------------------------------

InsertOrder(order_id, price) ==
    /\ order_book' = insert_order(order_book, order_id, price)
    /\ prev_book' = order_book
    /\ call' = [op |-> "insert_order", order_id |-> order_id, time |-> 0, price |-> price]
    /\ life' = IF life.phase = "erased" /\ life.order_id = order_id
               THEN [life EXCEPT !.phase = "reinserted"]
               ELSE IF life.phase = "reinserted" THEN NoLife ELSE life
    /\ UNCHANGED <<twap, exact, samples, prev_twap>>

EraseOrder(order_id) ==
    /\ order_book' = erase_order(order_book, order_id)
    /\ prev_book' = order_book
    /\ call' = [op |-> "erase_order", order_id |-> order_id, time |-> 0, price |-> NaN]
    /\ life' = IF order_id \in DOMAIN order_book.order_price_map_
               THEN [order_id |-> order_id,
                     price |-> order_book.order_price_map_[order_id],
                     phase |-> "erased"]
               ELSE IF life.phase = "reinserted" THEN NoLife ELSE life
    /\ UNCHANGED <<twap, exact, samples, prev_twap>>

\* next_price with a time not before the last one (the caller's contract)
NextPrice(time, price) ==
    /\ Len(samples) < MaxCalls
    /\ time >= twap.last_time_
    /\ twap' = next_price(twap, time, price)
    /\ exact' = next_price(exact, time, ExactOf(price))
    /\ samples' = Append(samples, [time |-> time, price |-> price])
    /\ prev_twap' = twap
    /\ call' = [op |-> "next_price", order_id |-> 0, time |-> time, price |-> price]
    /\ UNCHANGED <<order_book, prev_book, life>>

BookNext ==
    \/ \E order_id \in OrderIds, price \in Prices : InsertOrder(order_id, price)
    \/ \E order_id \in OrderIds : EraseOrder(order_id)

TwapNext == \E time \in Times, price \in Quotes : NextPrice(time, price)

\* any sequence of insert_order/erase_order calls on a new OrderBook
BookSpec == Init /\ [][BookNext]_vars

\* any sequence of next_price calls with non-decreasing times on a new TWAP
TwapSpec == Init /\ [][TwapNext]_vars

\* the times main passes to next_price
TraceTimes == {1000, 2000, 2200, 2400, 2500, 4000}

TraceNext == \E time \in TraceTimes, price \in Quotes : NextPrice(time, price)

\* any sequence of next_price calls at main's times, in their order
TraceSpec == Init /\ [][TraceNext]_vars

\* milliseconds in one trading day
DayMillis == 24 * 60 * 60 * 1000

\* the largest value of the int members last_time_ and total_time_
IntMax == 2147483647

\* time stamps over a whole trading day: its start, its middle, its end
DayTimes == {0, 1, DayMillis \div 2, DayMillis - 1, DayMillis}

\* TWAP::next_price at times of day; the exact copy is not carried along here
\* (its numerators and denominators outgrow the integers of the model checker)
DayNextPrice(time, price) ==
    /\ Len(samples) < MaxCalls
    /\ time >= twap.last_time_
    /\ twap' = next_price(twap, time, price)
    /\ samples' = Append(samples, [time |-> time, price |-> price])
    /\ prev_twap' = twap
    /\ call' = [op |-> "next_price", order_id |-> 0, time |-> time, price |-> price]
    /\ UNCHANGED <<order_book, prev_book, life, exact>>

DayNext == \E time \in DayTimes, price \in Quotes : DayNextPrice(time, price)

\* a TWAP fed over one trading day in milliseconds
DaySpec == Init /\ [][DayNext]_vars

\* ------------------------------------------------------------------------
\* OrderBook: properties
\* ------------------------------------------------------------------------

\* the ids of the live orders of ob
LiveIds(ob) == DOMAIN ob.order_price_map_

\* the prices of the live orders of ob
LivePrices(ob) == {ob.order_price_map_[id] : id \in LiveIds(ob)}

\* the live orders of ob at price p
OrdersAt(ob, p) == {id \in LiveIds(ob) : ob.order_price_map_[id] = p}

RECURSIVE SumCounts(_, _)
SumCounts(f, S) ==
    IF S = {} THEN 0
    ELSE LET p == CHOOSE x \in S : TRUE IN f[p] + SumCounts(f, S \ {p})

\* the largest of a nonempty set of prices
MaxOf(S) == CHOOSE p \in S : \A q \in S : ~DblLess(p, q)

\* C1: after any sequence of insert_order/erase_order calls on a new
\* OrderBook, every count in price_count_map_ is the number of live orders
\* at that price and is > 0, every live order's price is a key of
\* price_count_map_, and the counts add up to the number of live orders.
MapsConsistent ==
    /\ \A p \in DOMAIN order_book.price_count_map_ :
          /\ order_book.price_count_map_[p] = Cardinality(OrdersAt(order_book, p))
          /\ order_book.price_count_map_[p] > 0
    /\ \A id \in LiveIds(order_book) :
          order_book.order_price_map_[id] \in DOMAIN order_book.price_count_map_
    /\ SumCounts(order_book.price_count_map_, DOMAIN order_book.price_count_map_)
          = Cardinality(LiveIds(order_book))

\* an erase_order took the last order of a price away while other orders,
\* two of them at one price, stayed
MapsConsistentWitness ==
    /\ call.op = "erase_order"
    /\ call.order_id \in LiveIds(prev_book)
    /\ Cardinality(OrdersAt(prev_book, prev_book.order_price_map_[call.order_id])) = 1
    /\ \E p \in Prices : Cardinality(OrdersAt(order_book, p)) = 2

\* C2: max_price() is the largest price of the live orders, and is NaN
\* exactly when there is no live order.
MaxPriceIsMaxLive ==
    /\ isnan(max_price(order_book)) <=> LiveIds(order_book) = {}
    /\ LiveIds(order_book) # {} =>
          max_price(order_book) = MaxOf(LivePrices(order_book))

\* the order with the largest price was erased and a cheaper order is left
MaxPriceIsMaxLiveWitness ==
    /\ call.op = "erase_order"
    /\ call.order_id \in LiveIds(prev_book)
    /\ LiveIds(order_book) # {}
    /\ DblLess(max_price(order_book), prev_book.order_price_map_[call.order_id])

\* C3: insert_order with the id of a live order changes neither map, also
\* when the price differs from the order's price.
DuplicateInsertIsNoOp ==
    (call.op = "insert_order" /\ call.order_id \in LiveIds(prev_book))
        => order_book = prev_book

\* insert_order was called with a live id and another price than the order's
DuplicateInsertWitness ==
    /\ call.op = "insert_order"
    /\ call.order_id \in LiveIds(prev_book)
    /\ call.price # prev_book.order_price_map_[call.order_id]
    /\ call.price \notin LivePrices(prev_book)

\* C4: erase_order with an id that is not live changes neither map, and
\* erase_order twice with one id gives what erase_order once gives.
EraseUnknownIsNoOp ==
    /\ (call.op = "erase_order" /\ call.order_id \notin LiveIds(prev_book))
          => order_book = prev_book
    /\ \A id \in OrderIds :
          erase_order(erase_order(order_book, id), id) = erase_order(order_book, id)

\* erase_order was called with an id that is not live, on a book with orders
\* of larger and of smaller ids
EraseUnknownWitness ==
    /\ call.op = "erase_order"
    /\ call.order_id \notin LiveIds(prev_book)
    /\ \E a, b \in LiveIds(prev_book) : a < call.order_id /\ call.order_id < b

\* the largest live price of ob once the order id is gone, NaN if none is left
MaxWithout(ob, id) ==
    LET rest == {ob.order_price_map_[k] : k \in LiveIds(ob) \ {id}}
    IN  IF rest = {} THEN NaN ELSE MaxOf(rest)

\* the prices of the live orders of ob are exactly those of the sequence ps
HasPrices(ob, ps) ==
    \E f \in [1..Len(ps) -> OrderIds] :
        /\ \A i, j \in 1..Len(ps) : i # j => f[i] # f[j]
        /\ LiveIds(ob) = {f[i] : i \in 1..Len(ps)}
        /\ \A i \in 1..Len(ps) : ob.order_price_map_[f[i]] = FromInt(ps[i])

\* C5: erasing an order at the maximum price leaves max_price() as it is
\* while another order has that price, and brings it down to the largest
\* price left (NaN if no order is left) when it was the last one.  With
\* orders at 10, 13, 13 max_price() is 13, with one of the 13s erased it is
\* 13, with both erased it is 10.
EraseAtMaxPrice ==
    /\ (/\ call.op = "erase_order"
        /\ call.order_id \in LiveIds(prev_book)
        /\ prev_book.order_price_map_[call.order_id] = max_price(prev_book))
          => /\ Cardinality(OrdersAt(prev_book, max_price(prev_book))) > 1
                  => max_price(order_book) = max_price(prev_book)
             /\ Cardinality(OrdersAt(prev_book, max_price(prev_book))) = 1
                  => /\ max_price(order_book) = MaxWithout(prev_book, call.order_id)
                     /\ max_price(order_book) # max_price(prev_book)
    /\ HasPrices(order_book, <<10, 13, 13>>) => max_price(order_book) = FromInt(13)
    /\ HasPrices(order_book, <<10, 13>>) => max_price(order_book) = FromInt(13)
    /\ HasPrices(order_book, <<10>>) => max_price(order_book) = FromInt(10)

\* of the orders at 10, 13, 13 one at 13 was erased
EraseAtMaxPriceWitness ==
    /\ call.op = "erase_order"
    /\ HasPrices(prev_book, <<10, 13, 13>>)
    /\ HasPrices(order_book, <<10, 13>>)
    /\ max_price(order_book) = FromInt(13)

\* ------------------------------------------------------------------------
\* TWAP: properties
\* ------------------------------------------------------------------------

\* the places in samples of the samples with a price that have a successor
Intervals == {i \in 1..(Len(samples) - 1) : ~isnan(samples[i].price)}

\* how long the sample at place i was in effect
Duration(i) == samples[i + 1].time - samples[i].time

RECURSIVE SumDurations(_)
\* the sum of the durations of the intervals in S
SumDurations(S) ==
    IF S = {} THEN 0
    ELSE LET i == CHOOSE x \in S : TRUE IN Duration(i) + SumDurations(S \ {i})

RECURSIVE SumWeighted(_)
\* the sum of price * duration over the intervals in S
SumWeighted(S) ==
    IF S = {} THEN Rat(0, 1)
    ELSE LET i == CHOOSE x \in S : TRUE
         IN  RatAdd(RatMulInt(ExactOf(samples[i].price), Duration(i)), SumWeighted(S \ {i}))

\* C6: in exact arithmetic, total_time_ is the sum of the durations of the
\* samples that have a price, and whenever it is > 0 the average is the sum
\* of price * duration over those samples divided by total_time_.
FoldIsWeightedMean ==
    /\ exact.total_time_ = SumDurations(Intervals)
    /\ twap.total_time_ = exact.total_time_
    /\ exact.total_time_ > 0 =>
          exact.avg_price_ = RatDivInt(SumWeighted(Intervals), exact.total_time_)

\* three intervals, among them two of different lengths and prices, were
\* averaged (the weighted average was taken twice), and the average is no
\* whole number
FoldIsWeightedMeanWitness ==
    /\ Cardinality(Intervals) >= 3
    /\ \A i \in Intervals : Duration(i) > 0
    /\ \E i, j \in Intervals :
          /\ samples[i].price # samples[j].price
          /\ Duration(i) # Duration(j)
          /\ Duration(i) > 0
          /\ Duration(j) > 0
    /\ exact.avg_price_.cls = "rat"
    /\ exact.avg_price_.den > 1

\* C7 as stated: next_price(t, NaN) leaves total_time_ and avg_price_ as
\* they were.
NanSampleChangesNothing ==
    (call.op = "next_price" /\ isnan(call.price))
        => /\ twap.total_time_ = prev_twap.total_time_
           /\ twap.avg_price_ = prev_twap.avg_price_

\* C7 as amended: next_price(t, NaN) stores t and NaN as last_time_ and
\* last_price_; it leaves total_time_ and avg_price_ as they were when the
\* previous price is NaN, and when the previous price is a number it adds
\* the time since the previous sample to total_time_ and gives the average
\* a value.
NanSampleFoldsPrevious ==
    (call.op = "next_price" /\ isnan(call.price))
        => /\ twap.last_time_ = call.time
           /\ isnan(twap.last_price_)
           /\ isnan(prev_twap.last_price_) =>
                 /\ twap.total_time_ = prev_twap.total_time_
                 /\ twap.avg_price_ = prev_twap.avg_price_
           /\ ~isnan(prev_twap.last_price_) =>
                 /\ twap.total_time_ = prev_twap.total_time_ + (call.time - prev_twap.last_time_)
                 /\ ~isnan(twap.avg_price_)

\* a NaN sample came some time after a sample with a price, on a TWAP that
\* had averaged before
NanSampleFoldsPreviousWitness ==
    /\ call.op = "next_price"
    /\ isnan(call.price)
    /\ ~isnan(prev_twap.last_price_)
    /\ prev_twap.total_time_ > 0
    /\ call.time > prev_twap.last_time_
    /\ twap.avg_price_ # prev_twap.avg_price_

\* C8: when the previous price is NaN, next_price changes neither
\* avg_price_ nor total_time_, whatever the time and the new price.
GapIsNotAveraged ==
    (call.op = "next_price" /\ isnan(prev_twap.last_price_))
        => /\ twap.avg_price_ = prev_twap.avg_price_
           /\ twap.total_time_ = prev_twap.total_time_

\* a price came some time after a NaN sample, on a TWAP that had averaged
\* before
GapIsNotAveragedWitness ==
    /\ call.op = "next_price"
    /\ isnan(prev_twap.last_price_)
    /\ ~isnan(call.price)
    /\ call.time > prev_twap.last_time_
    /\ prev_twap.total_time_ > 0
    /\ ~isnan(twap.avg_price_)

\* C9: avg_price() is NaN as long as no sample with a price has been
\* followed by another sample.
NoIntervalNoAverage ==
    Intervals = {} => isnan(avg_price(twap))

\* several samples came, the last of them with a price, and none before it
\* had one
NoIntervalNoAverageWitness ==
    /\ Len(samples) >= 3
    /\ Intervals = {}
    /\ ~isnan(twap.last_price_)
    /\ twap.last_time_ > 0

\* C10: with the same price p at every sample and increasing times,
\* avg_price() is p from the second sample on.
ConstantPriceAverage ==
    (/\ Len(samples) >= 2
     /\ \A i \in 1..Len(samples) : samples[i].price = samples[1].price
     /\ ~isnan(samples[1].price)
     /\ \A i \in 1..(Len(samples) - 1) : samples[i].time < samples[i + 1].time)
        => avg_price(twap) = twap.last_price_

\* the samples (1000, NaN), (2000, 10.0), (2200, 13.0), (2400, 13.0)
GoldenSamples ==
    << [time |-> 1000, price |-> NaN],
       [time |-> 2000, price |-> FromInt(10)],
       [time |-> 2200, price |-> FromInt(13)],
       [time |-> 2400, price |-> FromInt(13)] >>

\* samples is the first k of the golden samples
GoldenPrefix(k) == samples = SubSeq(GoldenSamples, 1, k)

\* 11.5
ElevenAndAHalf == DblDivInt(FromInt(23), 2)

\* C11 as stated: after the golden samples avg_price() is NaN, NaN, 10.0
\* and 12.0.
GoldenTraceAsStated ==
    /\ GoldenPrefix(1) => isnan(avg_price(twap))
    /\ GoldenPrefix(2) => isnan(avg_price(twap))
    /\ GoldenPrefix(3) => avg_price(twap) = FromInt(10)
    /\ GoldenPrefix(4) => avg_price(twap) = FromInt(12)

\* C11 as amended: after the golden samples avg_price() is NaN, NaN, 10.0
\* and 11.5 (10.0 for 200 ms and 13.0 for 200 ms), in double arithmetic and
\* in exact arithmetic alike.
GoldenTrace ==
    /\ GoldenPrefix(1) => isnan(avg_price(twap))
    /\ GoldenPrefix(2) => isnan(avg_price(twap))
    /\ GoldenPrefix(3) => avg_price(twap) = FromInt(10)
    /\ GoldenPrefix(4) =>
          /\ avg_price(twap) = ElevenAndAHalf
          /\ avg_price(exact) = Rat(23, 2)
          /\ twap.total_time_ = 400

\* all four golden samples were fed
GoldenTraceWitness == GoldenPrefix(4) /\ call.op = "next_price" /\ call.time = 2400

\* C13: the price passed to next_price is only stored: whatever price is
\* passed with a time, avg_price() and total_time_ after the call are the
\* same, last_price_ and last_time_ are the price and the time passed, and
\* the price enters the average at the call after.
PriceOnlyStored ==
    call.op = "next_price" =>
        /\ twap.last_price_ = call.price
        /\ twap.last_time_ = call.time
        /\ \A p \in Quotes :
              LET other == next_price(prev_twap, call.time, p)
              IN  /\ avg_price(other) = avg_price(twap)
                  /\ other.total_time_ = twap.total_time_
                  /\ other.last_price_ = p
                  /\ other.last_time_ = call.time
        /\ (~isnan(prev_twap.last_price_) /\ prev_twap.total_time_ = 0)
              => avg_price(twap) = prev_twap.last_price_

\* a price came that differs from the previous one, some time after it, on
\* a TWAP that had averaged before; the average moved
PriceOnlyStoredWitness ==
    /\ call.op = "next_price"
    /\ ~isnan(call.price)
    /\ ~isnan(prev_twap.last_price_)
    /\ call.price # prev_twap.last_price_
    /\ prev_twap.total_time_ > 0
    /\ call.time > prev_twap.last_time_
    /\ avg_price(twap) # avg_price(prev_twap)
    /\ avg_price(twap) # call.price

\* C14: an order id that was inserted and then erased is not live: a later
\* insert_order with that id and a price p2 makes a live order at p2, counts
\* it at p2, and max_price() is the larger of p2 and what it was.
ReinsertStartsNewLife ==
    life.phase = "reinserted" =>
        /\ call.op = "insert_order"
        /\ call.order_id = life.order_id
        /\ life.order_id \in LiveIds(order_book)
        /\ order_book.order_price_map_[life.order_id] = call.price
        /\ call.price \in DOMAIN order_book.price_count_map_
        /\ order_book.price_count_map_[call.price]
              = Cardinality(OrdersAt(prev_book, call.price)) + 1
        /\ max_price(order_book) =
              IF isnan(max_price(prev_book)) \/ DblLess(max_price(prev_book), call.price)
              THEN call.price
              ELSE max_price(prev_book)

\* an id was inserted again after its erasure, at a higher price than it
\* had and than any other order has
ReinsertStartsNewLifeWitness ==
    /\ life.phase = "reinserted"
    /\ DblLess(life.price, call.price)
    /\ LiveIds(prev_book) # {}
    /\ DblLess(max_price(prev_book), call.price)
    /\ max_price(order_book) = call.price

\* C15: over any sequence of next_price calls with non-decreasing times within
\* one trading day (0..86,400,000 ms), total_time_ is never negative and never
\* more than last_time_ minus the time of the first sample; the ints add_time
\* and total_time_ + add_time computed by a call stay within a 32-bit signed
\* int, and whenever the weighted branch divides by new_total_time it is
\* strictly positive and becomes the new total_time_.
ElapsedTimeFits ==
    /\ twap.total_time_ >= 0
    /\ twap.total_time_ <= IntMax
    /\ twap.last_time_ >= 0
    /\ twap.last_time_ <= DayMillis
    /\ samples # <<>> => twap.total_time_ <= twap.last_time_ - samples[1].time
    /\ (call.op = "next_price" /\ ~isnan(prev_twap.last_price_)) =>
          LET add_time       == call.time - prev_twap.last_time_
              new_total_time == prev_twap.total_time_ + add_time
          IN  /\ add_time >= 0
              /\ add_time <= IntMax
              /\ new_total_time >= 0
              /\ new_total_time <= IntMax
              /\ twap.total_time_ = new_total_time
              /\ prev_twap.total_time_ > 0 => new_total_time > 0

\* the weighted branch has divided by a new_total_time of a whole trading day
\* less the gap before it, after a first sample taken later than midnight
ElapsedTimeFitsWitness ==
    /\ call.op = "next_price"
    /\ ~isnan(prev_twap.last_price_)
    /\ prev_twap.total_time_ > 0
    /\ call.time = DayMillis
    /\ call.time > prev_twap.last_time_
    /\ samples[1].time > 0
    /\ isnan(samples[2].price)
    /\ twap.total_time_ >= DayMillis \div 2
    /\ twap.total_time_ < twap.last_time_ - samples[1].time
    /\ ~isnan(avg_price(twap))

====
